---- MODULE Spec2Model ----
(***************************************************************************)
(* Model of report_card_manager.py: the Student record, the GradeManager   *)
(* roster with its JSON persistence, and the interactive main loop.        *)
(*                                                                         *)
(* Scores are modelled as integers; an average is the exact rational       *)
(* sum/len, kept as a pair [num, den].  A JSON object is a function from   *)
(* its keys to its values, so a missing key is a key outside DOMAIN.       *)
(***************************************************************************)
EXTENDS Integers, Sequences, FiniteSets, TLC

VARIABLES
    students,    \* GradeManager.students: sequence of [id, name, subjects]
    counter,     \* Student._id_counter
    file,        \* the file at GradeManager.filename
    ret,         \* outcome of the last call made on the roster
    report,      \* the report card the last call printed (NoReport: none)
    lastIssued,  \* the greatest id add_student has returned so far (0: none)
    pc,          \* position of the program
    eof,         \* standard input has reached end of file
    saved,       \* save_to_file was called after the last change of the roster
    sid,         \* main's local sid
    sub          \* main's local sub

vars == <<students, counter, file, ret, report, lastIssued, pc, eof, saved, sid, sub>>
rosterVars == <<students, counter, file, ret, report, lastIssued>>
mainVars == <<pc, eof, saved, sid, sub>>

----------------------------------------------------------------------------
(* Bounds *)

MaxStudents == 2   \* add_student is explored while the roster is shorter
MaxId == 3         \* add_student is explored while the counter is at most this

Names == {"Ada"}
Subjects == {"Math"}
ScoreInputs == {40, 101}
IdInputs == 1..(MaxId + 1)

GradeSubjects == {"Math", "History"}
GradeScores == {-1, 0, 49, 50, 74, 75, 89, 90, 100, 101}

----------------------------------------------------------------------------
(* Values *)

EmptyDict == [k \in {} |-> 0]

NoException == "None"

\* The exceptions the modelled code can raise that derive from Exception;
\* KeyboardInterrupt does not.
ExceptionSubclasses ==
    {"OSError", "PermissionError", "JSONDecodeError", "KeyError", "EOFError",
     "ValueError", "UnicodeDecodeError"}

NoRet == [op |-> "none", ok |-> TRUE, val |-> 0, exc |-> NoException]
NoReport == [found |-> FALSE, avg |-> [num |-> 0, den |-> 1], grade |-> ""]

Max(a, b) == IF a >= b THEN a ELSE b

----------------------------------------------------------------------------
(* class Student *)

\* Student.__init__: the record a new student starts as.
NewStudent(id, name) == [id |-> id, name |-> name, subjects |-> EmptyDict]

\* add_subject with the lower bound made strict
add_subject_m(subjects, subject, score) ==
    IF 0 < score /\ score <= 100
    THEN [ok |-> TRUE,
          subjects |-> [k \in (DOMAIN subjects) \cup {subject} |->
                           IF k = subject THEN score ELSE subjects[k]]]
    ELSE [ok |-> FALSE, subjects |-> subjects]

\* Student.add_subject: [ok, subjects] after the call.
add_subject(subjects, subject, score) ==
    IF 0 <= score /\ score <= 100
    THEN [ok |-> TRUE,
          subjects |-> [k \in (DOMAIN subjects) \cup {subject} |->
                           IF k = subject THEN score ELSE subjects[k]]]
    ELSE [ok |-> FALSE, subjects |-> subjects]

RECURSIVE SumValues(_, _)
SumValues(subjects, keys) ==
    IF keys = {} THEN 0
    ELSE LET k == CHOOSE x \in keys : TRUE
         IN subjects[k] + SumValues(subjects, keys \ {k})

\* Student.calculate_average: the exact quotient num/den.
calculate_average(subjects) ==
    IF DOMAIN subjects = {}
    THEN [num |-> 0, den |-> 1]
    ELSE [num |-> SumValues(subjects, DOMAIN subjects),
          den |-> Cardinality(DOMAIN subjects)]

\* avg >= n for the rational avg
AvgGeq(avg, n) == avg.num >= n * avg.den

\* get_grade with the boundaries given to the lower band
get_grade_m(subjects) ==
    LET avg == calculate_average(subjects)
    IN IF avg.num > 90 * avg.den THEN "A"
       ELSE IF avg.num > 75 * avg.den THEN "B"
       ELSE IF avg.num > 50 * avg.den THEN "C"
       ELSE "Fail"

\* Student.get_grade
get_grade(subjects) ==
    LET avg == calculate_average(subjects)
    IN IF AvgGeq(avg, 90) THEN "A"
       ELSE IF AvgGeq(avg, 75) THEN "B"
       ELSE IF AvgGeq(avg, 50) THEN "C"
       ELSE "Fail"

\* to_dict that leaves the scores out
to_dict_m(s) == [id |-> s.id, name |-> s.name, subjects |-> EmptyDict]

\* Student.to_dict
to_dict(s) == [id |-> s.id, name |-> s.name, subjects |-> s.subjects]

\* from_dict that sets the counter to id + 1 without the max
from_dict_m(data, ctr) ==
    IF "id" \notin DOMAIN data \/ "name" \notin DOMAIN data
    THEN [exc |-> "KeyError", obj |-> NewStudent(0, ""), counter |-> ctr]
    ELSE [exc |-> NoException,
          obj |-> [id |-> data.id,
                   name |-> data.name,
                   subjects |-> IF "subjects" \in DOMAIN data
                                THEN data.subjects ELSE EmptyDict],
          counter |-> data.id + 1]

\* Student.from_dict: [exc, obj, counter]; a missing "id" or "name" raises
\* KeyError before the counter is touched.
from_dict(data, ctr) ==
    IF "id" \notin DOMAIN data \/ "name" \notin DOMAIN data
    THEN [exc |-> "KeyError", obj |-> NewStudent(0, ""), counter |-> ctr]
    ELSE [exc |-> NoException,
          obj |-> [id |-> data.id,
                   name |-> data.name,
                   subjects |-> IF "subjects" \in DOMAIN data
                                THEN data.subjects ELSE EmptyDict],
          counter |-> Max(ctr, data.id + 1)]

----------------------------------------------------------------------------
(* The file at GradeManager.filename *)

AbsentFile == [state |-> "absent", data |-> <<>>]
MalformedFile == [state |-> "malformed", data |-> <<>>]
UnreadableFile == [state |-> "unreadable", data |-> <<>>]
JsonFile(data) == [state |-> "json", data |-> data]
\* A file inside a directory the process may not search.
InaccessibleFile == [state |-> "inaccessible", data |-> <<>>]

\* Path.exists(): True, False, or the PermissionError that Python up to 3.11
\* re-raises when the directory is not searchable (3.12 returns False).
Exists(f) ==
    CASE f.state = "absent" -> {"False"}
      [] f.state = "inaccessible" -> {"False", "PermissionError"}
      [] OTHER -> {"True"}

\* Objects a file found on disk may hold: well-formed ones, one with a
\* score out of range, one without "subjects", one without "name", one
\* without "id".
FileRecords ==
    { [id |-> 1, name |-> "Ada", subjects |-> [k \in {"Math"} |-> 40]],
      [id |-> 1, name |-> "Grace", subjects |-> [k \in {"Math"} |-> 101]],
      [id |-> 3, name |-> "Ada"],
      [id |-> 4, subjects |-> EmptyDict],
      [name |-> "Grace", subjects |-> EmptyDict] }

\* The files found on disk at start: none, an unreadable one, one in a
\* directory that may not be searched, one that is not JSON, and the arrays
\* of at most two of the objects above.
InitialFiles ==
    {AbsentFile, MalformedFile, UnreadableFile, InaccessibleFile, JsonFile(<<>>)}
    \cup {JsonFile(<<r>>) : r \in FileRecords}
    \cup {JsonFile(<<r, q>>) : r \in FileRecords, q \in FileRecords}

----------------------------------------------------------------------------
(* class GradeManager *)

Ids(sts) == {sts[i].id : i \in 1..Len(sts)}

\* find_student that falls through to the last student
find_student_m(sts, student_id) ==
    IF \E i \in 1..Len(sts) : sts[i].id = student_id
    THEN CHOOSE i \in 1..Len(sts) :
             /\ sts[i].id = student_id
             /\ \A j \in 1..(i - 1) : sts[j].id # student_id
    ELSE Len(sts)

\* GradeManager.find_student: the position of the first student with the id,
\* 0 for None.
find_student(sts, student_id) ==
    IF \E i \in 1..Len(sts) : sts[i].id = student_id
    THEN CHOOSE i \in 1..Len(sts) :
             /\ sts[i].id = student_id
             /\ \A j \in 1..(i - 1) : sts[j].id # student_id
    ELSE 0

\* list.remove of the element at position i
RemoveAt(sts, i) == [j \in 1..(Len(sts) - 1) |-> IF j < i THEN sts[j] ELSE sts[j + 1]]

\* A call of GradeManager.find_student: val is the position found, 0 for None.
find_student_call(student_id) ==
    LET i == find_student(students, student_id)
    IN /\ ret' = [op |-> "find_student", ok |-> i # 0, val |-> i, exc |-> NoException]
       /\ report' = NoReport
       /\ UNCHANGED <<students, counter, file, lastIssued>>

\* GradeManager.add_student
add_student(name) ==
    /\ students' = Append(students, NewStudent(counter, name))
    /\ counter' = counter + 1
    /\ ret' = [op |-> "add_student", ok |-> TRUE, val |-> counter, exc |-> NoException]
    /\ lastIssued' = Max(lastIssued, counter)
    /\ report' = NoReport
    /\ UNCHANGED file

\* GradeManager.update_scores
update_scores(student_id, subject, score) ==
    LET i == find_student(students, student_id)
    IN /\ IF i = 0
          THEN /\ ret' = [op |-> "update_scores", ok |-> FALSE, val |-> 0, exc |-> NoException]
               /\ UNCHANGED students
          ELSE LET r == add_subject(students[i].subjects, subject, score)
               IN /\ students' = [students EXCEPT ![i].subjects = r.subjects]
                  /\ ret' = [op |-> "update_scores", ok |-> r.ok, val |-> student_id,
                             exc |-> NoException]
       /\ report' = NoReport
       /\ UNCHANGED <<counter, file, lastIssued>>

\* GradeManager.delete_student
delete_student(student_id) ==
    LET i == find_student(students, student_id)
    IN /\ IF i = 0
          THEN /\ ret' = [op |-> "delete_student", ok |-> FALSE, val |-> 0, exc |-> NoException]
               /\ UNCHANGED students
          ELSE /\ students' = RemoveAt(students, i)
               /\ ret' = [op |-> "delete_student", ok |-> TRUE, val |-> student_id,
                          exc |-> NoException]
       /\ report' = NoReport
       /\ UNCHANGED <<counter, file, lastIssued>>

\* GradeManager.view_report
view_report(student_id) ==
    LET i == find_student(students, student_id)
    IN /\ IF i = 0
          THEN report' = NoReport
          ELSE report' = [found |-> TRUE,
                          avg |-> calculate_average(students[i].subjects),
                          grade |-> get_grade(students[i].subjects)]
       /\ ret' = [op |-> "view_report", ok |-> i # 0, val |-> student_id, exc |-> NoException]
       /\ UNCHANGED <<students, counter, file, lastIssued>>

\* What the environment does to a write: it succeeds, it fails before the
\* file is opened, or it fails after open(..., "w") truncated the file.
SaveOutcomes == {"ok", "open_failed", "write_failed"}

\* The JSON array json.dump writes.
Dump(sts) == [i \in 1..Len(sts) |-> to_dict(sts[i])]

\* GradeManager.save_to_file: every failure is caught and reported.  A
\* write changes the content of the file, never its permissions: a file the
\* process may not read stays unreadable to it, also after a write that
\* succeeded.
save_to_file(outcome) ==
    /\ file.state = "inaccessible" => outcome = "open_failed"
    /\ file' = CASE outcome = "open_failed" -> file
                 [] file.state = "unreadable" -> file
                 [] outcome = "ok" -> JsonFile(Dump(students))
                 [] OTHER -> MalformedFile
    /\ ret' = [op |-> "save_to_file", ok |-> outcome = "ok", val |-> 0, exc |-> NoException]
    /\ report' = NoReport
    /\ UNCHANGED <<students, counter, lastIssued>>

\* The list comprehension [Student.from_dict(d) for d in data]: the records
\* are converted in order, and the first exception ends the comprehension.
RECURSIVE LoadRecords(_, _, _, _)
LoadRecords(data, i, ctr, acc) ==
    IF i > Len(data)
    THEN [exc |-> NoException, students |-> acc, counter |-> ctr]
    ELSE LET r == from_dict(data[i], ctr)
         IN IF r.exc # NoException
            THEN [exc |-> r.exc, students |-> acc, counter |-> r.counter]
            ELSE LoadRecords(data, i + 1, r.counter, Append(acc, r.obj))

\* The body of load_from_file's try block: [exc, students, counter].
TryLoad(f, sts, ctr) ==
    CASE f.state = "unreadable" -> [exc |-> "OSError", students |-> sts, counter |-> ctr]
      [] f.state = "malformed" -> [exc |-> "JSONDecodeError", students |-> sts, counter |-> ctr]
      [] OTHER ->
           LET r == LoadRecords(f.data, 1, ctr, <<>>)
           IN IF r.exc = NoException
              THEN r
              ELSE [exc |-> r.exc, students |-> sts, counter |-> r.counter]

\* GradeManager.load_from_file: the exists() test stands before the try
\* block, so what it raises reaches the caller; what the try block raises
\* is caught and reported.
load_from_file ==
    \E x \in Exists(file) :
       \/ /\ x = "False"
          /\ ret' = [op |-> "load_from_file", ok |-> TRUE, val |-> 0, exc |-> NoException]
          /\ report' = NoReport
          /\ UNCHANGED <<students, counter, file, lastIssued>>
       \/ /\ x = "PermissionError"
          /\ ret' = [op |-> "load_from_file", ok |-> FALSE, val |-> 0, exc |-> x]
          /\ report' = NoReport
          /\ UNCHANGED <<students, counter, file, lastIssued>>
       \/ /\ x = "True"
          /\ LET r == TryLoad(file, students, counter)
             IN /\ students' = r.students
                /\ counter' = r.counter
                /\ ret' = [op |-> "load_from_file",
                           ok |-> r.exc = NoException,
                           val |-> Len(r.students),
                           exc |-> IF r.exc \in ExceptionSubclasses
                                   THEN NoException ELSE r.exc]
          /\ report' = NoReport
          /\ UNCHANGED <<file, lastIssued>>

----------------------------------------------------------------------------
(* The roster driven through its methods *)

Init ==
    /\ students = <<>>
    /\ counter = 1
    /\ file \in InitialFiles
    /\ ret = NoRet
    /\ report = NoReport
    /\ lastIssued = 0
    /\ pc = "new"
    /\ eof = FALSE
    /\ saved = FALSE
    /\ sid = 0
    /\ sub = ""

\* GradeManager.__init__: an exception of load_from_file leaves no manager.
GradeManagerInit ==
    /\ pc = "new"
    /\ load_from_file
    /\ pc' = IF ret'.exc = NoException THEN "ready" ELSE "raised"
    /\ UNCHANGED <<eof, saved, sid, sub>>

CallAddStudent ==
    /\ pc = "ready"
    /\ Len(students) < MaxStudents
    /\ counter <= MaxId
    /\ \E name \in Names : add_student(name)
    /\ UNCHANGED mainVars

CallFindStudent ==
    /\ pc = "ready"
    /\ \E id \in IdInputs : find_student_call(id)
    /\ UNCHANGED mainVars

CallUpdateScores ==
    /\ pc = "ready"
    /\ \E id \in IdInputs, s \in Subjects, sc \in ScoreInputs : update_scores(id, s, sc)
    /\ UNCHANGED mainVars

CallDeleteStudent ==
    /\ pc = "ready"
    /\ \E id \in IdInputs : delete_student(id)
    /\ UNCHANGED mainVars

CallSaveToFile ==
    /\ pc = "ready"
    /\ \E o \in SaveOutcomes : save_to_file(o)
    /\ UNCHANGED mainVars

CallLoadFromFile ==
    /\ pc = "ready"
    /\ load_from_file
    /\ UNCHANGED mainVars

Next ==
    \/ GradeManagerInit
    \/ CallAddStudent
    \/ CallFindStudent
    \/ CallUpdateScores
    \/ CallDeleteStudent
    \/ CallSaveToFile
    \/ CallLoadFromFile

Spec == Init /\ [][Next]_vars

----------------------------------------------------------------------------
(* One student's report card: scores around the grade boundaries *)

InitGrades ==
    /\ Init
    /\ file = AbsentFile

GradeAddStudent ==
    /\ pc = "ready"
    /\ students = <<>>
    /\ add_student("Ada")
    /\ UNCHANGED mainVars

GradeUpdateScores ==
    /\ pc = "ready"
    /\ \E id \in 1..2, s \in GradeSubjects, sc \in GradeScores : update_scores(id, s, sc)
    /\ UNCHANGED mainVars

CallViewReport ==
    /\ pc = "ready"
    /\ \E id \in 1..2 : view_report(id)
    /\ UNCHANGED mainVars

NextGrades ==
    \/ GradeManagerInit
    \/ GradeAddStudent
    \/ GradeUpdateScores
    \/ CallViewReport

SpecGrades == InitGrades /\ [][NextGrades]_vars

----------------------------------------------------------------------------
(* main: the interactive loop *)

EOF == "<EOF>"   \* input() raises EOFError
INT == "<INT>"   \* input() raises KeyboardInterrupt
BAD == "<BAD>"   \* input() raises UnicodeDecodeError (undecodable bytes)

ChoiceLines == {"1", "2", "3", "4", "5", "6", "7", "x"}
NameLines == {"Ada", ""}
SubjectLines == {"Math", "DONE", "D", ""}        \* the prompt of the add loop
UpdateSubjectLines == {"Math", ""}           \* the prompt of choice 2
ScoreLines == {"40", "101", "abc", ""}
IdLines == {"1", "2", "x"}

MainInitialFiles ==
    {AbsentFile, MalformedFile, InaccessibleFile,
     JsonFile(<<[id |-> 1, name |-> "Grace", subjects |-> [k \in {"Math"} |-> 40]]>>)}

\* What one input() call can deliver: a line, or one of the three
\* exceptions.  On a terminal, lines keep coming after an EOFError, so the
\* end of input does not narrow the later reads (a pipe, where every later
\* read raises EOFError again, is one of these behaviours).
Read(lines) == lines \cup {EOF, INT, BAD}

\* The outcomes of input() that raise
Raising == {EOF, INT, BAD}

\* str.lower on the lines of the model
lower(s) ==
    CASE s = "DONE" -> "done"
      [] s = "D" -> "d"
      [] s = "Math" -> "math"
      [] OTHER -> s

None == [some |-> FALSE, val |-> 0]
Some(v) == [some |-> TRUE, val |-> v]

\* input_int: [exc, res]; ValueError (UnicodeDecodeError is one) and
\* EOFError become None, KeyboardInterrupt propagates.
input_int(e) ==
    CASE e = INT -> [exc |-> "KeyboardInterrupt", res |-> None]
      [] e \in {EOF, BAD} -> [exc |-> NoException, res |-> None]
      [] e = "1" -> [exc |-> NoException, res |-> Some(1)]
      [] e = "2" -> [exc |-> NoException, res |-> Some(2)]
      [] OTHER -> [exc |-> NoException, res |-> None]

\* input_score: as input_int, and the empty line is None.
input_score(e) ==
    CASE e = INT -> [exc |-> "KeyboardInterrupt", res |-> None]
      [] e \in {EOF, BAD} -> [exc |-> NoException, res |-> None]
      [] e = "" -> [exc |-> NoException, res |-> None]
      [] e = "40" -> [exc |-> NoException, res |-> Some(40)]
      [] e = "101" -> [exc |-> NoException, res |-> Some(101)]
      [] OTHER -> [exc |-> NoException, res |-> None]

\* The ghost of a call made on the roster: a change of the collection
\* makes the last save stale.
Touch == saved' = IF students' # students THEN FALSE ELSE saved

\* except (KeyboardInterrupt, EOFError): save before exit; a second
\* KeyboardInterrupt before the call leaves main without it.
ExceptClause ==
    /\ \/ /\ \E o \in SaveOutcomes : save_to_file(o)
          /\ saved' = TRUE
       \/ UNCHANGED <<rosterVars, saved>>
    /\ pc' = "loop_done"
    /\ UNCHANGED <<sid, sub>>

\* An exception the except clause does not name leaves main at once.
Uncaught ==
    /\ pc' = "loop_done"
    /\ UNCHANGED <<rosterVars, saved, sid, sub>>

\* What main does with an exception raised in the try block
Raise(exc) == IF exc \in {"KeyboardInterrupt", "EOFError"} THEN ExceptClause ELSE Uncaught

\* The exception of an outcome of input()
ExcOf(e) ==
    CASE e = EOF -> "EOFError"
      [] e = INT -> "KeyboardInterrupt"
      [] e = BAD -> "UnicodeDecodeError"
      [] OTHER -> NoException

InitMain ==
    /\ students = <<>>
    /\ counter = 1
    /\ file \in MainInitialFiles
    /\ ret = NoRet
    /\ report = NoReport
    /\ lastIssued = 0
    /\ pc = "main"
    /\ eof = FALSE
    /\ saved = FALSE
    /\ sid = 0
    /\ sub = ""

\* gm = GradeManager(); atexit.register(gm.save_to_file)
\* An exception of GradeManager(), or a KeyboardInterrupt before the hook is
\* registered, ends the process before the loop starts.
MainStart ==
    /\ pc = "main"
    /\ load_from_file
    /\ \/ pc' = IF ret'.exc = NoException THEN "choose" ELSE "aborted"
       \/ pc' = "aborted"
    /\ UNCHANGED <<eof, saved, sid, sub>>

\* choice = input("Choose an option: ") and the branches that read nothing more
Choose ==
    /\ pc = "choose"
    /\ \E e \in Read(ChoiceLines) :
          /\ eof' = (eof \/ e = EOF)
          /\ \/ e \in Raising /\ Raise(ExcOf(e))
             \/ /\ e = "1"
                /\ Len(students) < MaxStudents
                /\ counter <= MaxId
                /\ pc' = "name"
                /\ UNCHANGED <<rosterVars, saved, sid, sub>>
             \/ /\ e \in {"2", "3", "4"}
                /\ pc' = CASE e = "2" -> "upd_id" [] e = "3" -> "view_id" [] OTHER -> "del_id"
                /\ UNCHANGED <<rosterVars, saved, sid, sub>>
             \/ /\ e = "6"
                /\ \E o \in SaveOutcomes : save_to_file(o)
                /\ saved' = TRUE
                /\ UNCHANGED <<pc, sid, sub>>
             \/ /\ e = "7"
                /\ \E o \in SaveOutcomes : save_to_file(o)
                /\ saved' = TRUE
                /\ pc' = "loop_done"
                /\ UNCHANGED <<sid, sub>>
             \/ /\ e \in {"5", "x"}
                /\ UNCHANGED <<rosterVars, pc, saved, sid, sub>>

\* name = input("Student name: "); sid = gm.add_student(name)
EnterName ==
    /\ pc = "name"
    /\ \E e \in Read(NameLines) :
          /\ eof' = (eof \/ e = EOF)
          /\ \/ e \in Raising /\ Raise(ExcOf(e))
             \/ /\ e = ""
                /\ pc' = "choose"
                /\ UNCHANGED <<rosterVars, saved, sid, sub>>
             \/ /\ e \notin Raising \cup {""}
                /\ add_student(e)
                /\ sid' = counter
                /\ Touch
                /\ pc' = "subject"
                /\ UNCHANGED sub

\* sub = input("Enter subject (or 'done'): ")
EnterSubject ==
    /\ pc = "subject"
    /\ \E e \in Read(SubjectLines) :
          /\ eof' = (eof \/ e = EOF)
          /\ \/ e \in Raising /\ Raise(ExcOf(e))
             \/ /\ e \notin Raising
                /\ lower(e) \in {"done", "d", ""}
                /\ pc' = "choose"
                /\ UNCHANGED <<rosterVars, saved, sid, sub>>
             \/ /\ e \notin Raising
                /\ lower(e) \notin {"done", "d", ""}
                /\ sub' = e
                /\ pc' = "marks"
                /\ UNCHANGED <<rosterVars, saved, sid>>

\* score = input_score(...); gm.update_scores(sid, sub, score)
\* pc "marks" is the prompt of the add loop, "upd_score" that of choice 2.
EnterScore ==
    /\ pc \in {"marks", "upd_score"}
    /\ \E e \in Read(ScoreLines) :
          LET r == input_score(e)
              back == IF pc = "marks" THEN "subject" ELSE "choose"
          IN /\ eof' = (eof \/ e = EOF)
             /\ \/ r.exc # NoException /\ Raise(r.exc)
                \/ /\ r.exc = NoException
                   /\ ~r.res.some
                   /\ pc' = back
                   /\ UNCHANGED <<rosterVars, saved, sid, sub>>
                \/ /\ r.exc = NoException
                   /\ r.res.some
                   /\ update_scores(sid, sub, r.res.val)
                   /\ Touch
                   /\ pc' = back
                   /\ UNCHANGED <<sid, sub>>

\* sid = input_int(...) of choices 2, 3 and 4, and the call of 3 and 4
EnterId ==
    /\ pc \in {"upd_id", "view_id", "del_id"}
    /\ \E e \in Read(IdLines) :
          LET r == input_int(e)
          IN /\ eof' = (eof \/ e = EOF)
             /\ \/ r.exc # NoException /\ Raise(r.exc)
                \/ /\ r.exc = NoException
                   /\ ~r.res.some
                   /\ pc' = "choose"
                   /\ UNCHANGED <<rosterVars, saved, sid, sub>>
                \/ /\ r.exc = NoException
                   /\ r.res.some
                   /\ sid' = r.res.val
                   /\ \/ /\ pc = "upd_id"
                         /\ pc' = "upd_sub"
                         /\ UNCHANGED <<rosterVars, saved, sub>>
                      \/ /\ pc = "view_id"
                         /\ view_report(r.res.val)
                         /\ pc' = "choose"
                         /\ UNCHANGED <<saved, sub>>
                      \/ /\ pc = "del_id"
                         /\ delete_student(r.res.val)
                         /\ Touch
                         /\ pc' = "choose"
                         /\ UNCHANGED sub

\* sub = input("Subject name: ") of choice 2
EnterUpdateSubject ==
    /\ pc = "upd_sub"
    /\ \E e \in Read(UpdateSubjectLines) :
          /\ eof' = (eof \/ e = EOF)
          /\ \/ e \in Raising /\ Raise(ExcOf(e))
             \/ /\ e = ""
                /\ pc' = "choose"
                /\ UNCHANGED <<rosterVars, saved, sid, sub>>
             \/ /\ e \notin Raising \cup {""}
                /\ sub' = e
                /\ pc' = "upd_score"
                /\ UNCHANGED <<rosterVars, saved, sid>>

\* A process end at which the hook does not run
AtExit_m ==
    /\ pc = "loop_done"
    /\ pc' = "ended"
    /\ UNCHANGED <<rosterVars, eof, saved, sid, sub>>

\* the hook of atexit.register(gm.save_to_file), run as the process ends
AtExit ==
    /\ pc = "loop_done"
    /\ \E o \in SaveOutcomes : save_to_file(o)
    /\ saved' = TRUE
    /\ pc' = "ended"
    /\ UNCHANGED <<eof, sid, sub>>

NextMain ==
    \/ MainStart
    \/ Choose
    \/ EnterName
    \/ EnterSubject
    \/ EnterScore
    \/ EnterId
    \/ EnterUpdateSubject
    \/ AtExit

SpecMain == InitMain /\ [][NextMain]_vars

----------------------------------------------------------------------------
(* Properties *)

\* C1: every id add_student returns is greater than every id it returned
\* before, whatever calls were made in between (deletions and loads included).
C1_IdsStrictlyIncreasing ==
    [][(\E n \in Names : add_student(n)) => ret'.val > lastIssued]_vars

\* C1 witness: with no file ever loaded, ids 1 and 2 were issued, student 2
\* (the highest) was deleted, and the next add_student returned 3.
C1_Witness ==
    /\ file = AbsentFile
    /\ ret.op = "add_student"
    /\ ret.val = 3
    /\ Ids(students) = {1, 3}

\* C2: every score stored in any student's subjects is within 0..100,
\* also in the states load_from_file reaches.
C2_ScoresInRange ==
    \A i \in 1..Len(students) : \A k \in DOMAIN students[i].subjects :
        0 <= students[i].subjects[k] /\ students[i].subjects[k] <= 100

\* C3: no two students of the collection have the same id, also in the
\* states load_from_file reaches.
C3_UniqueIds ==
    \A i, j \in 1..Len(students) : i # j => students[i].id # students[j].id

\* C4: a load_from_file right after a successful save_to_file leaves the
\* collection with the same records in the same order, and the counter
\* above every id of the collection.
C4_RoundTrip ==
    [][(ret.op = "save_to_file" /\ ret.ok /\ load_from_file)
         => /\ students' = students
            /\ \A i \in 1..Len(students) : counter' > students[i].id]_vars

\* C4 witness: a roster of two students, one of them added in this process
\* (id 2) and holding a score, was saved and loaded back.
C4_Witness ==
    /\ ret.op = "load_from_file"
    /\ ret.ok
    /\ Len(students) = 2
    /\ file = JsonFile(Dump(students))
    /\ \E i \in 1..2 : students[i].id = 2 /\ DOMAIN students[i].subjects # {}

\* C5: a load_from_file that fails raises nothing to its caller and leaves
\* the collection as it was.
C5_FailedLoadKeepsStudents ==
    [][(load_from_file /\ ~ret'.ok)
         => (students' = students /\ ret'.exc = NoException)]_vars

\* C6: find_student, update_scores and delete_student with an id no student
\* has report not-found, raise nothing, and change neither the collection
\* nor the counter.
C6_NotFoundChangesNothing ==
    [][\A id \in IdInputs :
         (/\ \A i \in 1..Len(students) : students[i].id # id
          /\ \/ find_student_call(id)
             \/ delete_student(id)
             \/ \E s \in Subjects, sc \in ScoreInputs : update_scores(id, s, sc))
         => (/\ ~ret'.ok
             /\ ret'.val = 0
             /\ ret'.exc = NoException
             /\ students' = students
             /\ counter' = counter)]_vars

\* C6 witness: delete_student reported not-found on a roster that holds
\* a student with a score.
C6_Witness ==
    /\ ret.op = "delete_student"
    /\ ~ret.ok
    /\ students # <<>>
    /\ DOMAIN students[1].subjects # {}

\* C7: update_scores on an existing student succeeds exactly when
\* 0 <= score <= 100; on success the subject maps to the score and every
\* other subject keeps its score, on failure the mapping is unchanged; no
\* other student changes.
C7_AddSubjectIffInRange ==
    [][\A id \in 1..2, s \in GradeSubjects, sc \in GradeScores :
         \A i \in 1..Len(students) :
           (students[i].id = id /\ update_scores(id, s, sc))
           => LET old == students[i].subjects
                  new == students'[i].subjects
              IN /\ ret'.ok <=> (0 <= sc /\ sc <= 100)
                 /\ ret'.ok => /\ DOMAIN new = DOMAIN old \cup {s}
                               /\ new[s] = sc
                               /\ \A k \in DOMAIN old \ {s} : new[k] = old[k]
                 /\ ~ret'.ok => new = old
                 /\ Len(students') = Len(students)
                 /\ \A j \in 1..Len(students) : j # i => students'[j] = students[j]]_vars

\* C7 witness: a score of 0 was accepted for one subject while the other
\* subject kept its score.
C7_Witness ==
    /\ ret.op = "update_scores"
    /\ ret.ok
    /\ Len(students) = 1
    /\ DOMAIN students[1].subjects = GradeSubjects
    /\ students[1].subjects["Math"] = 0
    /\ students[1].subjects["History"] = 100

\* C8: however the main loop ended (choice 7, KeyboardInterrupt, end of
\* input, or an exception main does not catch), when the process has ended
\* save_to_file has been called after the last change of the roster.
C8_SavedWhenProcessEnds ==
    pc = "ended" => saved

\* C8 witness: the process ended after end of input, with a student added
\* in this run who holds a score.
C8_Witness ==
    /\ pc = "ended"
    /\ eof
    /\ lastIssued > 0
    /\ \E i \in 1..Len(students) :
          students[i].id = lastIssued /\ DOMAIN students[i].subjects # {}

\* C9: the grade view_report prints is "A" iff average >= 90, "B" iff
\* 75 <= average < 90, "C" iff 50 <= average < 75, "Fail" iff average < 50;
\* the average of no subjects is 0; computing them changes no state.
C9_GradeBands ==
    [][\A id \in 1..2 : \A i \in 1..Len(students) :
         (students[i].id = id /\ view_report(id))
         => LET avg == report'.avg
                g == report'.grade
            IN /\ g = "A" <=> avg.num >= 90 * avg.den
               /\ g = "B" <=> (avg.num >= 75 * avg.den /\ avg.num < 90 * avg.den)
               /\ g = "C" <=> (avg.num >= 50 * avg.den /\ avg.num < 75 * avg.den)
               /\ g = "Fail" <=> avg.num < 50 * avg.den
               /\ DOMAIN students[i].subjects = {} => (avg.num = 0 /\ g = "Fail")
               /\ UNCHANGED <<students, counter, file>>]_vars

\* C9 witness: a report of two subjects whose average is exactly 75 showed
\* grade "B".
C9_Witness ==
    /\ report.found
    /\ report.avg.den = 2
    /\ report.avg.num = 150
    /\ report.grade = "B"

\* C10: a load_from_file that fails leaves the id counter, like the
\* collection, at the value it had before the load.
C10_FailedLoadKeepsCounter ==
    [][(load_from_file /\ ~ret'.ok)
         => (counter' = counter /\ students' = students)]_vars

====
